---- MODULE Spec2Model ----
(***************************************************************************)
(* Model of the cloud-migration-tool frontend core:                        *)
(*   - the eligibles Store and its localStorage snapshot, and the activity  *)
(*     log (store/eligiblesStore.js),                                      *)
(*   - the provisioning view's reconciler (components/IaCGenerator.js),    *)
(*   - the recommendation pipeline (components/InstanceRecommender.js).    *)
(*                                                                         *)
(* JS values are represented as follows.  A string is a TLA+ string, the   *)
(* empty string "" included.  An array is a sequence.  A value that may be *)
(* null/undefined is a sequence of length 0 (absent) or 1 (present), so    *)
(* that a price of 0 or -1 stays distinct from an absent price.  A text    *)
(* in localStorage is a record of its kind and, for an array, its rows.    *)
(***************************************************************************)
EXTENDS Integers, Sequences, FiniteSets, TLC

\* ------------------------------------------------------------------ bounds
MaxStoreLen == 2      \* longest list handed to the Store's write
MaxSubs == 3          \* callbacks registered by the callers of an API
MaxLogAppends == 2    \* addActivity calls with varied events
MaxCapAppends == 102  \* addActivity calls of the run past the log's cap
MaxReads == 2         \* reads recorded between two writes or appends

\* ------------------------------------------------------------- JS helpers
Absent == <<>>
Present(v) == <<v>>

TypeNames == <<"t01", "t02", "t03", "t04", "t05", "t06",
               "t07", "t08", "t09", "t10", "t11", "t12", "t13">>

Row(t, c, m, p) ==
  [instance_type |-> t, vCPU |-> c, memory_GB |-> m, price_per_hour |-> p]

\* rows.find((r) => r.instance_type === sel) is truthy
HasType(rows, sel) == \E i \in DOMAIN rows : rows[i].instance_type = sel

\* rows.slice(0, n)
Slice(rows, n) == SubSeq(rows, 1, IF Len(rows) < n THEN Len(rows) ELSE n)

VARIABLES
  _eligibles,    \* eligiblesStore: module variable _eligibles; the rows
                 \* when it is an array
  valueKind,     \* eligiblesStore: what _eligibles is: "array", or the
                 \* kind of the non-array value loaded into it
  subscribers,   \* eligiblesStore: Set of callbacks, in insertion order
  storage,       \* localStorage: the item under KEY (Absent if none)
  boot,          \* history: what the module's initial load found, dropped
                 \* at the first setEligibles
  delivered,     \* history: the callback invocations of the last
                 \* setEligibles call, dropped at the next Store call
  threw,         \* history: the last setEligibles call threw to its caller
  _rows,         \* activityStore: module variable _rows
  _subs,         \* activityStore: array of callbacks
  logDelivered,  \* history: the callback invocations of the last
                 \* addActivity call, dropped at the next log call
  logThrew,      \* history: the last addActivity call threw to its caller
  clock,         \* number of addActivity calls so far; Date.now() and the
                 \* generated ids grow with it
  lastEligibles, \* history: what the last getEligibles call returned,
                 \* dropped at the next setEligibles
  lastActivities, \* history: what the last getActivities call returned,
                 \* dropped at the next addActivity
  creating,      \* IaCGenerator: state creating
  destroying,    \* IaCGenerator: state destroying
  provError,     \* IaCGenerator: state error
  stack,         \* IaCGenerator: state stack
  phase,         \* IaCGenerator: "unmounted" | "rendered" | "mounted"
  recs,          \* IaCGenerator: committed state recs
  selectedType,  \* IaCGenerator: committed state selectedType
  qRecs,         \* IaCGenerator: queued setRecs update (Absent if none)
  qSel,          \* IaCGenerator: queued setSelectedType update
  effectPending, \* IaCGenerator: the [selectedType] effect has yet to run
  pc,            \* handleSubmit: "Idle", "AwaitBoth", "AwaitPrice", or how
                 \* the last run ended: "Published", "FailedFetch",
                 \* "FailedNoCandidates", "FailedOther"
  instance,      \* InstanceRecommenderUI: state instance (best pick)
  eligibles,     \* InstanceRecommenderUI: state eligibles (local list)
  loading,       \* InstanceRecommenderUI: state loading
  error,         \* InstanceRecommenderUI: state error
  sortByPrice,   \* InstanceRecommenderUI: state sortByPrice
  rawRows,       \* handleSubmit: local rawRows of the run in flight
  priceReq,      \* names sent to priceInstances by the current/last run
  trigEligibles  \* history: state eligibles when handleSubmit was entered,
                 \* dropped when the run gets past both lookups

storeVars == <<_eligibles, valueKind, subscribers, storage, boot, delivered,
              threw>>
logVars == <<_rows, _subs, logDelivered, logThrew, clock>>
readVars == <<lastEligibles, lastActivities>>
provVars == <<creating, destroying, provError, stack>>
viewVars == <<phase, recs, selectedType, qRecs, qSel, effectPending>>
pipeVars == <<pc, instance, eligibles, loading, error, sortByPrice, rawRows,
              priceReq, trigEligibles>>
vars == <<_eligibles, valueKind, subscribers, storage, boot, delivered,
          threw, _rows, _subs, logDelivered, logThrew, clock, lastEligibles,
          lastActivities, creating, destroying, provError, stack, phase, recs,
          selectedType, qRecs, qSel,
          effectPending, pc, instance, eligibles, loading, error,
          sortByPrice, rawRows, priceReq, trigEligibles>>

\* ------------------------------------------------ inputs of the Store API
\* The instance types occurring in Store writes.
StoreTypes == {"t01", "t02", "t03"}

\* Entries of the lists written to the Store; the first type comes with
\* and without a price, so that an entry can keep its instance_type while
\* another field changes.
StoreRows ==
  {Row(t, 1, 1, Absent) : t \in StoreTypes}
    \cup {Row("t01", 1, 1, Present(1))}

UniqueTypes(rows) ==
  \A i, j \in DOMAIN rows :
    rows[i].instance_type = rows[j].instance_type => i = j

StoreLists ==
  {l \in UNION {[1..n -> StoreRows] : n \in 0..MaxStoreLen} : UniqueTypes(l)}

\* An argument of setEligibles: an array, or some value that is no array.
StoreArgs ==
  {[isArray |-> TRUE, rows |-> l] : l \in StoreLists}
    \cup {[isArray |-> FALSE, rows |-> <<>>]}

\* ------------------------------------------------------------ localStorage
\* JSON.stringify of one entry: a null price is written as null, a number
\* as a number.
StringifyRow(r) ==
  [instance_type |-> r.instance_type,
   vCPU |-> r.vCPU,
   memory_GB |-> r.memory_GB,
   price_per_hour |-> IF r.price_per_hour = Absent
                        THEN [tag |-> "null", num |-> 0]
                        ELSE [tag |-> "number", num |-> r.price_per_hour[1]]]

\* JSON.stringify(_eligibles): the text of an array
Stringify(rows) ==
  [kind |-> "array",
   rows |-> [i \in 1..Len(rows) |-> StringifyRow(rows[i])]]

\* ParseRow that reads every price as null
ParseRowDropsPrice(j) ==
  Row(j.instance_type, j.vCPU, j.memory_GB, Absent)

\* JSON.parse of one entry
ParseRow(j) ==
  Row(j.instance_type, j.vCPU, j.memory_GB,
      IF j.price_per_hour.tag = "null" THEN Absent
      ELSE Present(j.price_per_hour.num))

\* Texts that are no array: JSON.parse throws on "malformed"; "null",
\* "false", "zero" (0) and "emptyString" ("") parse to falsy values;
\* "object" ({...}), "number" (non-zero), "string" (non-empty) and "true"
\* parse to truthy ones.
FalsyTexts == {"null", "false", "zero", "emptyString"}
TruthyTexts == {"object", "number", "string", "true"}

NonArrayTexts ==
  {[kind |-> k, rows |-> <<>>] :
     k \in {"malformed"} \cup FalsyTexts \cup TruthyTexts}

\* A JS value held by _eligibles: an array with its rows, or a value of
\* another kind.
EmptyList == [kind |-> "array", rows |-> <<>>]

\* The initialiser of _eligibles: JSON.parse(localStorage.getItem(KEY)) ||
\* [] inside try/catch.  getItem throws when the storage is not readable
\* and gives null when there is no item; JSON.parse(null) is null.
LoadEligibles(item, readable) ==
  IF ~readable \/ item = Absent THEN EmptyList
  ELSE IF item[1].kind = "malformed" THEN EmptyList
  ELSE IF item[1].kind \in FalsyTexts THEN EmptyList
  ELSE IF item[1].kind = "array"
    THEN [kind |-> "array",
          rows |-> [i \in 1..Len(item[1].rows) |-> ParseRow(item[1].rows[i])]]
    ELSE [kind |-> item[1].kind, rows |-> <<>>]

\* ------------------------------------------------------------------ Store
\* getEligibles()
getEligibles == _eligibles

\* Callbacks are told apart by kind.  Besides the provisioning view's
\* ("view"), the callers of the API register:
\*   "listener" - does nothing further;
\*   "thrower"  - throws;
\*   "leaver"   - calls its own unsubscribe function;
\*   "remover"  - calls the unsubscribe function of "listener";
\*   "joiner"   - subscribes "late";
\*   "late"     - does nothing further;
\*   "writer"   - calls setEligibles(WriterList) unless it was handed
\*                WriterList.
Callback(kind) == [kind |-> kind, sel |-> ""]

ApiCallbacks ==
  {"listener", "thrower", "leaver", "remover", "joiner", "late", "writer"}

WriterList == <<Row("t03", 1, 1, Absent)>>

\* A Set entry emptied by delete while a forEach may be under way.
Deleted == Callback("(deleted)")

\* subscribers.add(fn)
SubscribeTo(subs, sub) ==
  IF \E i \in DOMAIN subs : subs[i] = sub THEN subs ELSE Append(subs, sub)

\* subscribers.delete(fn) during a forEach, closing the gap at once, as
\* splicing an array would
DeleteDuringPassSplice(subs, kind) ==
  SelectSeq(subs, LAMBDA x : x.kind # kind)

\* subscribers.delete(fn) without effect while a forEach is under way
DeleteDuringPassIgnored(subs, kind) == subs

\* subscribers.delete(fn) during a forEach: the entry is emptied and the
\* positions of the others stay
DeleteDuringPass(subs, kind) ==
  [i \in DOMAIN subs |-> IF subs[i].kind = kind THEN Deleted ELSE subs[i]]

\* the function subscribeEligibles returns: subscribers.delete(fn)
UnsubscribeFrom(subs, kind) == SelectSeq(subs, LAMBDA s : s.kind # kind)

\* The callback IaCGenerator subscribes, closed over the selectedType of the
\* render that created it (sub.sel).  It queues state updates; a later
\* setSelectedType in the same batch overrides an earlier one.
ViewCallback(sub, rows, q) ==
  [qRecs |-> Present(rows),
   qSel |-> IF Len(rows) = 0 THEN Present("")
            ELSE IF ~HasType(rows, sub.sel)
                   THEN Present(rows[1].instance_type)
                   ELSE q.qSel]

\* The state a call of setEligibles works on: the Set (st.subs), _eligibles
\* (st.value), the localStorage item, the view's queued updates (st.q), the
\* invocations made so far (st.log), whether an exception is propagating
\* (st.thrown) and whether this call's saves throw (st.saveThrows).
RECURSIVE Write(_, _)
RECURSIVE NotifyAll(_, _)
RECURSIVE Invoke(_, _)

\* SaveSnapshot without try/catch
SaveSnapshotUncaught(st) ==
  IF st.saveThrows THEN [st EXCEPT !.thrown = TRUE]
  ELSE [st EXCEPT !.storage = Present(Stringify(st.value))]

\* try { localStorage.setItem(KEY, JSON.stringify(_eligibles)) } catch {}
SaveSnapshot(st) ==
  IF st.saveThrows THEN st
  ELSE [st EXCEPT !.storage = Present(Stringify(st.value))]

\* InvokeGuarded without try/catch
InvokeUnguarded(sub, st) == Invoke(sub, st)

\* try { fn(_eligibles) } catch {}
InvokeGuarded(sub, st) == [Invoke(sub, st) EXCEPT !.thrown = FALSE]

\* fn(_eligibles): the callback is handed the value _eligibles has at the
\* moment of the call; what it does next depends on its kind.
Invoke(sub, st) ==
  LET in == [st EXCEPT !.log = Append(@, [kind |-> sub.kind,
                                          arg |-> st.value,
                                          read |-> st.value])]
  IN CASE sub.kind = "view" ->
            [in EXCEPT !.q = ViewCallback(sub, st.value, @)]
       [] sub.kind = "thrower" -> [in EXCEPT !.thrown = TRUE]
       [] sub.kind = "leaver" ->
            [in EXCEPT !.subs = DeleteDuringPass(@, "leaver")]
       [] sub.kind = "remover" ->
            [in EXCEPT !.subs = DeleteDuringPass(@, "listener")]
       [] sub.kind = "joiner" ->
            [in EXCEPT !.subs = SubscribeTo(@, Callback("late"))]
       [] sub.kind = "writer" ->
            IF st.value = WriterList THEN in ELSE Write(in, WriterList)
       [] OTHER -> in

\* subscribers.forEach(...) from position i on: Set.prototype.forEach
\* visits the entries in insertion order, skips one emptied before its
\* turn and goes on to those added during the pass.
NotifyAll(st, i) ==
  IF st.thrown \/ i > Len(st.subs) THEN st
  ELSE IF st.subs[i] = Deleted THEN NotifyAll(st, i + 1)
  ELSE NotifyAll(InvokeGuarded(st.subs[i], st), i + 1)

\* Write with _eligibles assigned again once the pass is over: the value of
\* the outer call stands
WriteOuterStands(st, rows) ==
  LET saved == SaveSnapshot([st EXCEPT !.value = rows])
  IN IF saved.thrown THEN saved
     ELSE [NotifyAll(saved, 1) EXCEPT !.value = rows]

\* the body of setEligibles, rows being Array.isArray(rows) ? rows : []
Write(st, rows) ==
  LET saved == SaveSnapshot([st EXCEPT !.value = rows])
  IN IF saved.thrown THEN saved ELSE NotifyAll(saved, 1)

\* setEligibles(rows), the try block of the save throwing or not
SetEligiblesSave(arg, saveThrows) ==
  LET st == Write([subs |-> subscribers,
                   value |-> _eligibles,
                   storage |-> storage,
                   q |-> [qRecs |-> qRecs, qSel |-> qSel],
                   log |-> <<>>,
                   thrown |-> FALSE,
                   saveThrows |-> saveThrows],
                  IF arg.isArray THEN arg.rows ELSE <<>>)
  IN /\ _eligibles' = st.value
     /\ valueKind' = "array"
     /\ subscribers' = UnsubscribeFrom(st.subs, Deleted.kind)
     /\ storage' = st.storage
     /\ boot' = Absent
     /\ delivered' = st.log
     /\ threw' = st.thrown
     /\ qRecs' = st.q.qRecs
     /\ qSel' = st.q.qSel
     /\ lastEligibles' = Absent
     /\ UNCHANGED <<logVars, lastActivities, provVars, phase, recs,
                   selectedType, effectPending,
                   pipeVars>>

\* setEligibles(rows)
setEligibles(arg) ==
  \E saveThrows \in BOOLEAN : SetEligiblesSave(arg, saveThrows)

\* subscribeEligibles(fn) called by a caller of the API
subscribeEligibles(kind) ==
  /\ Len(subscribers) < MaxSubs
  /\ subscribers' = SubscribeTo(subscribers, Callback(kind))
  /\ delivered' = <<>>
  /\ threw' = FALSE
  /\ UNCHANGED <<_eligibles, valueKind, storage, boot, logVars, readVars,
                 provVars, viewVars, pipeVars>>

\* the function subscribeEligibles returned, called by a caller of the API
unsubscribeEligibles(kind) ==
  /\ \E i \in DOMAIN subscribers : subscribers[i].kind = kind
  /\ subscribers' = UnsubscribeFrom(subscribers, kind)
  /\ delivered' = <<>>
  /\ threw' = FALSE
  /\ UNCHANGED <<_eligibles, valueKind, storage, boot, logVars, readVars,
                 provVars, viewVars, pipeVars>>

\* The page is loaded again while no component is mounted and no run is
\* under way: the modules are evaluated anew, _eligibles is initialised
\* from localStorage, the Set and the activity log are empty.
StoreStart(readable) ==
  /\ phase = "unmounted"
  /\ ~loading
  /\ _eligibles' = LoadEligibles(storage, readable).rows
  /\ valueKind' = LoadEligibles(storage, readable).kind
  /\ subscribers' = <<>>
  /\ boot' = Present([item |-> storage, readable |-> readable])
  /\ delivered' = <<>>
  /\ threw' = FALSE
  /\ _rows' = <<>>
  /\ _subs' = <<>>
  /\ logDelivered' = <<>>
  /\ logThrew' = FALSE
  /\ lastEligibles' = Absent
  /\ lastActivities' = Absent
  /\ UNCHANGED <<storage, clock, provVars, viewVars, pipeVars>>

\* ----------------------------------------------------------- activity log
LogCap == 100         \* [row, ..._rows].slice(0, 100)

\* A field of an event handed to addActivity: the key is missing, or it is
\* there with a value; Absent stands for undefined and null.
NoKey == [key |-> FALSE, val |-> Absent]
Key(v) == [key |-> TRUE, val |-> v]

\* Ids: the empty string, those callers supply and those cryptoRandom
\* makes, one per call.
EmptyId == [by |-> "", n |-> 0]
CallerId(n) == [by |-> "caller", n |-> n]
cryptoRandom == [by |-> "cryptoRandom", n |-> clock + 1]

\* Date.now(): later calls give later times; callers' times are earlier.
Now == clock + 10

Event(id, ts) ==
  [id |-> id, ts |-> ts, kind |-> "provision:create", region |-> "us-east-1"]

\* the event of every addActivity call of the run past the cap
PlainEvent == Event(NoKey, NoKey)

\* Events handed to addActivity: without id and ts; with both; with an id
\* key holding undefined, an empty id and a ts of 0.
LogEvents ==
  {PlainEvent,
   Event(Key(Present(CallerId(1))), Key(Present(5))),
   Event(Key(Absent), NoKey),
   Event(Key(Present(EmptyId)), Key(Present(0)))}

\* id || other: "", null and undefined are falsy
IdOrElse(id, other) == IF id = Absent \/ id[1] = EmptyId THEN other ELSE id

\* ts || other: 0, null and undefined are falsy
TsOrElse(ts, other) == IF ts = Absent \/ ts[1] = 0 THEN other ELSE ts

\* { id: evt.id || cryptoRandom(), ts: evt.ts || Date.now(), ...evt }: the
\* spread comes last and puts every key evt has over the defaults.
ActivityRow(evt) ==
  LET id0 == IdOrElse(evt.id.val, Present(cryptoRandom))
      ts0 == TsOrElse(evt.ts.val, Present(Now))
  IN [id |-> IF evt.id.key THEN evt.id.val ELSE id0,
      ts |-> IF evt.ts.key THEN evt.ts.val ELSE ts0,
      kind |-> evt.kind,
      region |-> evt.region]

\* Prepend as [..._rows, row].slice(0, 100): oldest first
PrependAtEnd(row, rows) == Slice(Append(rows, row), LogCap)

\* Prepend without .slice(0, 100)
PrependUncapped(row, rows) == <<row>> \o rows

\* [row, ..._rows].slice(0, 100)
Prepend(row, rows) == Slice(<<row>> \o rows, LogCap)

\* getActivities()
getActivities == _rows

\* Callbacks registered with the log, told apart by kind as those of the
\* Store: "listener", "thrower", "leaver", "remover", "joiner", "late".
LogCallbacks == {"listener", "thrower", "leaver", "remover", "joiner", "late"}

\* fn(_rows): st.rows is _rows, st.subs is _subs, st.log the invocations
\* made so far, st.thrown whether an exception is propagating.
\* Unsubscribing assigns a
\* filtered copy to _subs; subscribing pushes onto the array _subs is then.
LogInvoke(kind, st) ==
  LET in == [st EXCEPT !.log = Append(@, [kind |-> kind, arg |-> st.rows])]
  IN CASE kind = "thrower" -> [in EXCEPT !.thrown = TRUE]
       [] kind = "leaver" ->
            [in EXCEPT !.subs = SelectSeq(@, LAMBDA x : x # "leaver")]
       [] kind = "remover" ->
            [in EXCEPT !.subs = SelectSeq(@, LAMBDA x : x # "listener")]
       [] kind = "joiner" ->
            [in EXCEPT !.subs = IF \E i \in DOMAIN @ : @[i] = "late"
                                  THEN @ ELSE Append(@, "late")]
       [] OTHER -> in

\* _subs.forEach((fn) => fn(_rows)) from position i on: Array.prototype.
\* forEach walks the array _subs was when the pass began, up to the length
\* it had then; an exception ends the pass.
RECURSIVE LogNotifyAll(_, _, _)
LogNotifyAll(arr, i, st) ==
  IF st.thrown \/ i > Len(arr) THEN st
  ELSE LogNotifyAll(arr, i + 1, LogInvoke(arr[i], st))

\* addActivity(evt)
addActivity(evt) ==
  /\ LET st == LogNotifyAll(_subs, 1,
                            [rows |-> Prepend(ActivityRow(evt), _rows),
                             subs |-> _subs,
                             log |-> <<>>,
                             thrown |-> FALSE])
     IN /\ _rows' = st.rows
        /\ _subs' = st.subs
        /\ logDelivered' = st.log
        /\ logThrew' = st.thrown
  /\ clock' = clock + 1
  /\ lastActivities' = Absent
  /\ UNCHANGED <<storeVars, lastEligibles, provVars, viewVars, pipeVars>>

\* subscribeActivities(fn) called by a caller of the API; each callback is
\* registered once
subscribeActivities(kind) ==
  /\ Len(_subs) < MaxSubs
  /\ \A i \in DOMAIN _subs : _subs[i] # kind
  /\ _subs' = Append(_subs, kind)
  /\ logDelivered' = <<>>
  /\ logThrew' = FALSE
  /\ UNCHANGED <<_rows, clock, storeVars, readVars, provVars, viewVars,
                 pipeVars>>

\* the function subscribeActivities returned, called by a caller of the API
unsubscribeActivities(kind) ==
  /\ \E i \in DOMAIN _subs : _subs[i] = kind
  /\ _subs' = SelectSeq(_subs, LAMBDA x : x # kind)
  /\ logDelivered' = <<>>
  /\ logThrew' = FALSE
  /\ UNCHANGED <<_rows, clock, storeVars, readVars, provVars, viewVars,
                 pipeVars>>

\* ----------------------------------------------------------- IaCGenerator
\* useState(() => getEligibles()); useState(recs[0]?.instance_type || "")
ViewRender ==
  /\ phase = "unmounted"
  /\ phase' = "rendered"
  /\ recs' = getEligibles
  /\ selectedType' = IF Len(getEligibles) = 0 THEN ""
                     ELSE getEligibles[1].instance_type
  /\ effectPending' = TRUE
  /\ UNCHANGED <<storeVars, logVars, readVars, provVars, qRecs, qSel, pipeVars>>

\* useEffect(..., [selectedType]): clean up the previous subscription, then
\* subscribe a callback closed over the committed selectedType.
ViewEffect ==
  /\ phase \in {"rendered", "mounted"}
  /\ effectPending
  /\ subscribers' = SubscribeTo(UnsubscribeFrom(subscribers, "view"),
                                [kind |-> "view", sel |-> selectedType])
  /\ effectPending' = FALSE
  /\ phase' = "mounted"
  /\ UNCHANGED <<_eligibles, valueKind, storage, boot, delivered, threw,
                 logVars, readVars, provVars, recs, selectedType, qRecs,
                 qSel, pipeVars>>

\* Re-render: the queued updates become the committed state; the effect is
\* scheduled again when its dependency selectedType changed.  Pending
\* effects are flushed before a render starts.
ViewRerender ==
  /\ phase = "mounted"
  /\ ~effectPending
  /\ qRecs # Absent \/ qSel # Absent
  /\ recs' = IF qRecs # Absent THEN qRecs[1] ELSE recs
  /\ selectedType' = IF qSel # Absent THEN qSel[1] ELSE selectedType
  /\ effectPending' = (selectedType' # selectedType)
  /\ qRecs' = Absent
  /\ qSel' = Absent
  /\ UNCHANGED <<storeVars, logVars, readVars, provVars, phase, pipeVars>>

\* options: (recs || []).slice(0, 10).map((r) => ({value: r.instance_type}))
options ==
  {r.instance_type :
     r \in {Slice(recs, 10)[i] : i \in 1..Len(Slice(recs, 10))}}

\* <select onChange={(e) => setSelectedType(e.target.value)}>: the user
\* picks one of the rendered options.  React renders the update of a change
\* event synchronously, so it is committed within the event; pending effects
\* are flushed before that render.
SelectOption(v) ==
  /\ phase = "mounted"
  /\ ~effectPending
  /\ qRecs = Absent /\ qSel = Absent
  /\ v \in options
  /\ selectedType' = v
  /\ effectPending' = (v # selectedType)
  /\ UNCHANGED <<storeVars, logVars, readVars, provVars, phase, recs, qRecs,
                 qSel, pipeVars>>

\* Unmount: the effect's cleanup unsubscribes; the component state is gone.
ViewUnmount ==
  /\ phase \in {"rendered", "mounted"}
  /\ phase' = "unmounted"
  /\ subscribers' = UnsubscribeFrom(subscribers, "view")
  /\ recs' = <<>>
  /\ selectedType' = ""
  /\ qRecs' = Absent
  /\ qSel' = Absent
  /\ effectPending' = FALSE
  /\ creating' = FALSE
  /\ destroying' = FALSE
  /\ provError' = Absent
  /\ stack' = Absent
  /\ UNCHANGED <<_eligibles, valueKind, storage, boot, delivered, threw,
                 logVars, readVars, pipeVars>>

\* ---------------------------------------------------- callers that read
\* A caller's getEligibles(): the value returned is recorded after those
\* returned since the last write.
readEligibles ==
  /\ Len(lastEligibles) < MaxReads
  /\ lastEligibles' =
       Append(lastEligibles, [kind |-> valueKind, rows |-> getEligibles])
  /\ UNCHANGED <<storeVars, logVars, lastActivities, provVars, viewVars,
                 pipeVars>>

\* A read that hands the rows over and leaves the log empty.
readActivitiesDraining ==
  /\ Len(lastActivities) < MaxReads
  /\ lastActivities' = Append(lastActivities, getActivities)
  /\ _rows' = <<>>
  /\ UNCHANGED <<_subs, logDelivered, logThrew, clock, storeVars,
                 lastEligibles, provVars, viewVars, pipeVars>>

\* A caller's getActivities(): the value returned is recorded after those
\* returned since the last append.
readActivities ==
  /\ Len(lastActivities) < MaxReads
  /\ lastActivities' = Append(lastActivities, getActivities)
  /\ UNCHANGED <<storeVars, logVars, lastEligibles, provVars, viewVars,
                 pipeVars>>

\* ----------------------------------------------- IaCGenerator: provisioning
MsgCreateFailed == "Failed to create instance."
MsgDestroyFailed == "Failed to destroy stack."

\* Results of createAwsInstance: rejected with or without an error text of
\* the backend, or fulfilled with the stack, which has a stack_id or not.
CreateResults ==
  {[status |-> "rejected", error |-> e, stack_id |-> Absent] :
       e \in {Absent, Present("quota exceeded")}}
    \cup {[status |-> "fulfilled", error |-> Absent, stack_id |-> id] :
            id \in {Absent, Present("s1")}}

\* Results of destroyProvisionStack.
DestroyResults ==
  {[status |-> "rejected", error |-> e] :
       e \in {Absent, Present("stack is busy")}}
    \cup {[status |-> "fulfilled", error |-> Absent]}

\* createInstance up to its await; the form's button is disabled while
\* creating and while selectedType is empty.
createInstance ==
  /\ phase \in {"rendered", "mounted"}
  /\ ~creating
  /\ selectedType # ""
  /\ provError' = Absent
  /\ creating' = TRUE
  /\ stack' = Absent
  /\ UNCHANGED <<storeVars, logVars, readVars, destroying, viewVars, pipeVars>>

\* createInstance from the settling of createAwsInstance to its end
SettleCreate(res) ==
  /\ creating
  /\ IF res.status = "fulfilled"
       THEN /\ stack' = Present([stack_id |-> res.stack_id,
                                 destroyed |-> FALSE])
            /\ UNCHANGED provError
       ELSE /\ provError' = IF res.error # Absent THEN res.error
                            ELSE Present(MsgCreateFailed)
            /\ UNCHANGED stack
  /\ creating' = FALSE
  /\ UNCHANGED <<storeVars, logVars, readVars, destroying, viewVars, pipeVars>>

\* destroyStack up to its await; its button is disabled while destroying
\* and without a stack_id.
destroyStack ==
  /\ phase \in {"rendered", "mounted"}
  /\ stack # Absent
  /\ stack[1].stack_id # Absent
  /\ ~destroying
  /\ destroying' = TRUE
  /\ provError' = Absent
  /\ UNCHANGED <<storeVars, logVars, readVars, creating, stack, viewVars,
                 pipeVars>>

\* destroyStack from the settling of destroyProvisionStack to its end
SettleDestroy(res) ==
  /\ destroying
  /\ IF res.status = "fulfilled"
       THEN /\ stack' = IF stack = Absent THEN stack
                        ELSE Present([stack[1] EXCEPT !.destroyed = TRUE])
            /\ UNCHANGED provError
       ELSE /\ provError' = IF res.error # Absent THEN res.error
                            ELSE Present(MsgDestroyFailed)
            /\ UNCHANGED stack
  /\ destroying' = FALSE
  /\ UNCHANGED <<storeVars, logVars, readVars, creating, viewVars, pipeVars>>

\* ------------------------------------------- InstanceRecommenderUI: inputs
Cap == 10             \* data.first_20.slice(0, 10)
MaxShort == 2         \* short lookup results have 0..MaxShort entries
MaxOver == 1          \* long ones have Cap+1..Cap+MaxOver entries
NumShapes == 2        \* vCPU/memory layouts of a lookup result
NumPricePatterns == 3 \* price responses tried per request

MsgFetchFailed == "Failed to fetch eligible instances."
MsgNoInstances == "No instances meet the requirements in this region."
MsgWentWrong == "Something went wrong. Please try again."

\* What the backend may put in errData.error.
ServerErrors == {"region not supported"}

\* Results of recommendInstance(inputs), as Promise.allSettled reports them.
OptimizeResults ==
  {[status |-> "rejected"],
   [status |-> "fulfilled",
    data |-> [instance_type |-> "t01", price_per_hour |-> Present(1)]]}

\* Entry i of a lookup result of layout v.
RawRow(i, v) ==
  [instance_type |-> TypeNames[i],
   vCPU |-> IF v = 1 THEN (i + 1) \div 2 ELSE 1 + (i % 2),
   memory_GB |-> IF v = 1 THEN i ELSE 1 + (i % 3)]

RawLens == (0..MaxShort) \cup ((Cap + 1)..(Cap + MaxOver))

RawLists == {[i \in 1..n |-> RawRow(i, v)] : n \in RawLens, v \in 1..NumShapes}

\* Results of fetchEligibles(cpu, ram): rejected with or without a usable
\* errData.error, or fulfilled with data.first_20 an array or not.  A
\* first_20 that is no array (a string, an object with a length) still has
\* content; isArray tells it from an array.
EligiblesResults ==
  {[status |-> "rejected", error |-> e] :
       e \in {Absent, Present("")} \cup {Present(m) : m \in ServerErrors}}
    \cup {[status |-> "fulfilled", isArray |-> TRUE, first_20 |-> l] :
            l \in RawLists}
    \cup {[status |-> "fulfilled", isArray |-> FALSE,
           first_20 |-> <<RawRow(1, 1)>>]}

\* The price the backend reports for the i-th requested name under pattern
\* k: sent or omitted, and null, zero, negative or positive when sent.
PriceCycle ==
  <<[send |-> TRUE, price |-> Present(2)],
    [send |-> TRUE, price |-> Present(1)],
    [send |-> FALSE, price |-> Absent],
    [send |-> TRUE, price |-> Present(0)],
    [send |-> TRUE, price |-> Present(1)],
    [send |-> TRUE, price |-> Absent],
    [send |-> TRUE, price |-> Present(0 - 1)]>>

PriceEntry(i, k) == PriceCycle[((i + k) % Len(PriceCycle)) + 1]

PriceRows(names, k) ==
  LET all == [i \in 1..Len(names) |->
                [instance_type |-> names[i],
                 price_per_hour |-> PriceEntry(i, k).price,
                 send |-> PriceEntry(i, k).send]]
      sent == SelectSeq(all, LAMBDA r : r.send)
  IN [i \in 1..Len(sent) |->
        [instance_type |-> sent[i].instance_type,
         price_per_hour |-> sent[i].price_per_hour]]

\* Results of priceInstances(names): rejected, fulfilled without data.rows,
\* or fulfilled with rows.
PriceResults(names) ==
  {[status |-> "rejected", hasRows |-> FALSE, rows |-> <<>>],
   [status |-> "fulfilled", hasRows |-> FALSE, rows |-> <<>>]}
    \cup {[status |-> "fulfilled", hasRows |-> TRUE,
           rows |-> PriceRows(names, k)] : k \in 1..NumPricePatterns}

\* --------------------------------------------------- InstanceRecommenderUI
\* Names in the reverse of the rows' order
NamesReversed(rows) ==
  [i \in 1..Len(rows) |-> rows[Len(rows) - i + 1].instance_type]

\* rawRows.map((r) => r.instance_type)
Names(rows) == [i \in 1..Len(rows) |-> rows[i].instance_type]

\* priceMap[t] after `for (const r of rows) priceMap[r.instance_type] =
\* r.price_per_hour`: the price of the last row for t; undefined (Absent)
\* when there is none.
PriceMap(rows, t) ==
  LET idx == {i \in DOMAIN rows : rows[i].instance_type = t}
  IN IF idx = {} THEN Absent
     ELSE rows[CHOOSE i \in idx : \A j \in idx : j <= i].price_per_hour

\* MergePrice as `priceMap[r.instance_type] ?? null`: any reported number
\* is kept
MergePriceKeepsNonPositive(p) == p

\* price_per_hour: p == null || p <= 0 ? null : p
MergePrice(p) == IF p = Absent \/ p[1] <= 0 THEN Absent ELSE p

\* rawRows.map((r) => ({...r, price_per_hour: ...}))
Merge(raw, rows) ==
  [i \in 1..Len(raw) |->
     Row(raw[i].instance_type, raw[i].vCPU, raw[i].memory_GB,
         MergePrice(PriceMap(rows, raw[i].instance_type)))]

\* UsableRows without the Array.isArray test
UsableRowsNoArrayCheck(el) == Slice(el.first_20, Cap)

\* Array.isArray(data.first_20) ? data.first_20.slice(0, 10) : []
UsableRows(el) == IF el.isArray THEN Slice(el.first_20, Cap) ELSE <<>>

\* Submit without setEligibles([])
SubmitKeepsList ==
  /\ ~loading
  /\ error' = Absent
  /\ instance' = Absent
  /\ loading' = TRUE
  /\ pc' = "AwaitBoth"
  /\ priceReq' = Absent
  /\ trigEligibles' = eligibles
  /\ UNCHANGED <<storeVars, logVars, readVars, provVars, viewVars, eligibles,
                 sortByPrice, rawRows>>

\* Submit from a form whose button stays enabled while loading
SubmitWhileLoading ==
  /\ error' = Absent
  /\ instance' = Absent
  /\ eligibles' = <<>>
  /\ loading' = TRUE
  /\ pc' = "AwaitBoth"
  /\ priceReq' = Absent
  /\ trigEligibles' = eligibles
  /\ UNCHANGED <<storeVars, logVars, readVars, provVars, viewVars,
                 sortByPrice, rawRows>>

\* handleSubmit up to the first await; the submit button is disabled while
\* loading.
Submit ==
  /\ ~loading
  /\ error' = Absent
  /\ instance' = Absent
  /\ eligibles' = <<>>
  /\ loading' = TRUE
  /\ pc' = "AwaitBoth"
  /\ priceReq' = Absent
  /\ trigEligibles' = eligibles
  /\ UNCHANGED <<storeVars, logVars, readVars, provVars, viewVars,
                 sortByPrice, rawRows>>

\* SettleBoth with Promise.all in place of Promise.allSettled: either
\* rejection lands in the catch block
SettleBothAllOrNothing(opt, el) ==
  LET raw == IF el.status = "fulfilled" THEN UsableRows(el) ELSE <<>>
  IN
  /\ pc = "AwaitBoth"
  /\ IF opt.status # "fulfilled" \/ el.status # "fulfilled"
       THEN /\ error' = Present(MsgWentWrong)
            /\ loading' = FALSE
            /\ pc' = "FailedOther"
            /\ UNCHANGED <<instance, rawRows, priceReq>>
       ELSE /\ instance' = Present(opt.data)
            /\ IF Len(raw) = 0
                 THEN /\ error' = Present(MsgNoInstances)
                      /\ loading' = FALSE
                      /\ pc' = "FailedNoCandidates"
                      /\ UNCHANGED <<rawRows, priceReq>>
                 ELSE /\ rawRows' = raw
                      /\ priceReq' = Present(Names(raw))
                      /\ pc' = "AwaitPrice"
                      /\ UNCHANGED <<error, loading>>
  /\ UNCHANGED <<storeVars, logVars, readVars, provVars, viewVars, eligibles,
                 sortByPrice, trigEligibles>>

\* handleSubmit from Promise.allSettled to the next await or return
SettleBoth(opt, el) ==
  LET raw == IF el.status = "fulfilled" THEN UsableRows(el) ELSE <<>>
  IN
  /\ pc = "AwaitBoth"
  /\ instance' = IF opt.status = "fulfilled" THEN Present(opt.data)
                 ELSE instance
  /\ IF el.status # "fulfilled"
       THEN /\ error' = Present(IF el.error # Absent /\ el.error[1] # ""
                                  THEN el.error[1] ELSE MsgFetchFailed)
            /\ loading' = FALSE
            /\ pc' = "FailedFetch"
            /\ UNCHANGED <<rawRows, priceReq>>
       ELSE IF Len(raw) = 0
         THEN /\ error' = Present(MsgNoInstances)
              /\ loading' = FALSE
              /\ pc' = "FailedNoCandidates"
              /\ UNCHANGED <<rawRows, priceReq>>
         ELSE /\ rawRows' = raw
              /\ priceReq' = Present(Names(raw))
              /\ pc' = "AwaitPrice"
              /\ UNCHANGED <<error, loading>>
  /\ UNCHANGED <<storeVars, logVars, readVars, provVars, viewVars, eligibles,
                 sortByPrice, trigEligibles>>

\* handleSubmit from the settling of priceInstances to its end
SettlePrice(res) ==
  /\ pc = "AwaitPrice"
  /\ IF res.status # "fulfilled"
       THEN /\ error' = Present(MsgWentWrong)
            /\ pc' = "FailedOther"
            /\ UNCHANGED eligibles
       ELSE /\ eligibles' = Merge(rawRows, IF res.hasRows THEN res.rows
                                           ELSE <<>>)
            /\ pc' = "Published"
            /\ UNCHANGED error
  /\ loading' = FALSE
  /\ rawRows' = <<>>
  /\ trigEligibles' = <<>>
  /\ UNCHANGED <<storeVars, logVars, readVars, provVars, viewVars, instance,
                 sortByPrice, priceReq>>

\* the "Sort by price" checkbox
ToggleSort ==
  /\ sortByPrice' = ~sortByPrice
  /\ UNCHANGED <<storeVars, logVars, readVars, provVars, viewVars, pc,
                 instance, eligibles, loading, error, rawRows, priceReq,
                 trigEligibles>>

\* CompareRows with `if (ap == null) return 1` and `if (bp == null)
\* return -1` swapped: nulls first
CompareRowsNullsFirst(a, b) ==
  LET ap == a.price_per_hour
      bp == b.price_per_hour
  IN IF ap = Absent /\ bp = Absent
       THEN IF a.vCPU # b.vCPU THEN a.vCPU - b.vCPU
            ELSE a.memory_GB - b.memory_GB
     ELSE IF ap = Absent THEN 0 - 1
     ELSE IF bp = Absent THEN 1
     ELSE IF ap # bp THEN ap[1] - bp[1]
     ELSE IF a.vCPU # b.vCPU THEN a.vCPU - b.vCPU
     ELSE a.memory_GB - b.memory_GB

\* CompareRows without the vCPU tie-break
CompareRowsNoCpuTie(a, b) ==
  LET ap == a.price_per_hour
      bp == b.price_per_hour
  IN IF ap = Absent /\ bp = Absent THEN a.memory_GB - b.memory_GB
     ELSE IF ap = Absent THEN 1
     ELSE IF bp = Absent THEN 0 - 1
     ELSE IF ap # bp THEN ap[1] - bp[1]
     ELSE a.memory_GB - b.memory_GB

\* the comparator of rows.sort in displayRows
CompareRows(a, b) ==
  LET ap == a.price_per_hour
      bp == b.price_per_hour
  IN IF ap = Absent /\ bp = Absent
       THEN IF a.vCPU # b.vCPU THEN a.vCPU - b.vCPU
            ELSE a.memory_GB - b.memory_GB
     ELSE IF ap = Absent THEN 1
     ELSE IF bp = Absent THEN 0 - 1
     ELSE IF ap # bp THEN ap[1] - bp[1]
     ELSE IF a.vCPU # b.vCPU THEN a.vCPU - b.vCPU
     ELSE a.memory_GB - b.memory_GB

\* Array.prototype.sort: a stable sort by the comparator
RECURSIVE InsertRow(_, _)
InsertRow(sorted, x) ==
  IF sorted = <<>> THEN <<x>>
  ELSE IF CompareRows(sorted[Len(sorted)], x) > 0
    THEN Append(InsertRow(SubSeq(sorted, 1, Len(sorted) - 1), x),
                sorted[Len(sorted)])
    ELSE Append(sorted, x)

RECURSIVE SortRows(_)
SortRows(rows) ==
  IF rows = <<>> THEN <<>>
  ELSE InsertRow(SortRows(SubSeq(rows, 1, Len(rows) - 1)), rows[Len(rows)])

\* displayRows
displayRows == IF sortByPrice THEN SortRows(eligibles) ELSE eligibles

\* ------------------------------------------------------------------ system
\* The Store as the module's evaluation leaves it, localStorage holding
\* item and being readable or not.
InitStore(item, readable) ==
  /\ _eligibles = LoadEligibles(item, readable).rows
  /\ valueKind = LoadEligibles(item, readable).kind
  /\ subscribers = <<>>
  /\ storage = item
  /\ boot = Present([item |-> item, readable |-> readable])
  /\ delivered = <<>>
  /\ threw = FALSE

InitLog ==
  /\ _rows = <<>>
  /\ _subs = <<>>
  /\ logDelivered = <<>>
  /\ logThrew = FALSE
  /\ clock = 0
  /\ lastEligibles = Absent
  /\ lastActivities = Absent

\* useState(false), useState(false), useState(null), useState(null)
InitProvisioning ==
  /\ creating = FALSE
  /\ destroying = FALSE
  /\ provError = Absent
  /\ stack = Absent

Init ==
  /\ InitStore(Absent, TRUE)
  /\ InitLog
  /\ InitProvisioning
  /\ phase = "unmounted"
  /\ recs = <<>>
  /\ selectedType = ""
  /\ qRecs = Absent
  /\ qSel = Absent
  /\ effectPending = FALSE
  /\ pc = "Idle"
  /\ instance = Absent
  /\ eligibles = <<>>
  /\ loading = FALSE
  /\ error = Absent
  /\ sortByPrice = TRUE
  /\ rawRows = <<>>
  /\ priceReq = Absent
  /\ trigEligibles = <<>>

\* The Store beside the provisioning view; the saves to localStorage
\* succeed.
Next ==
  \/ \E arg \in StoreArgs : SetEligiblesSave(arg, FALSE)
  \/ ViewRender
  \/ ViewEffect
  \/ ViewRerender
  \/ \E v \in StoreTypes : SelectOption(v)
  \/ ViewUnmount

Spec == Init /\ [][Next]_vars

\* The pipeline beside a Store that other callers write.
PipeStoreArgs ==
  {[isArray |-> TRUE, rows |-> l] :
     l \in {<<>>, <<Row("t01", 1, 1, Absent)>>}}

NextPipeline ==
  \/ Submit
  \/ \E opt \in OptimizeResults, el \in EligiblesResults : SettleBoth(opt, el)
  \/ \E res \in PriceResults(Names(rawRows)) : SettlePrice(res)
  \/ ToggleSort
  \/ \E arg \in PipeStoreArgs : SetEligiblesSave(arg, FALSE)
  \/ ViewRender
  \/ ViewEffect
  \/ ViewRerender

SpecPipeline == Init /\ [][NextPipeline]_vars

\* The ranking alone: every short list the recommendation view can hold
\* (prices are absent or positive once merged), sorted or not.
MaxRankLen == 3
MaxPrice == 2
NumSizes == 3

\* The k-th (vCPU, memory_GB) pair: (1,1), (1,2), (2,1), (2,2), (3,1), ...
SizeCpu(k) == ((k - 1) \div 2) + 1
SizeMem(k) == ((k - 1) % 2) + 1

RankShapes ==
  [size : 1..NumSizes,
   price_per_hour : {Absent} \cup {Present(v) : v \in 1..MaxPrice}]

\* The list of n rows of the shapes f[1..n], entry i of type TypeNames[i].
RankList(n, f) ==
  [i \in 1..n |-> Row(TypeNames[i], SizeCpu(f[i].size), SizeMem(f[i].size),
                      f[i].price_per_hour)]

InitRank ==
  /\ InitStore(Absent, TRUE)
  /\ InitLog
  /\ InitProvisioning
  /\ phase = "unmounted"
  /\ recs = <<>>
  /\ selectedType = ""
  /\ qRecs = Absent
  /\ qSel = Absent
  /\ effectPending = FALSE
  /\ pc = "Published"
  /\ instance = Absent
  /\ \E n \in 0..MaxRankLen :
       \E f \in [1..n -> RankShapes] : eligibles = RankList(n, f)
  /\ loading = FALSE
  /\ error = Absent
  /\ sortByPrice \in BOOLEAN
  /\ rawRows = <<>>
  /\ priceReq = Absent
  /\ trigEligibles = <<>>

NextRank == ToggleSort

SpecRank == InitRank /\ [][NextRank]_vars

\* The Store's API under its callers: lists written with the save working
\* or not, callbacks registered and removed.
ApiLists ==
  {<<>>, <<Row("t02", 2, 4, Present(1)), Row("t01", 1, 1, Absent)>>}

ApiArgs ==
  {[isArray |-> TRUE, rows |-> l] : l \in ApiLists}
    \cup {[isArray |-> FALSE, rows |-> <<>>]}

NextApi ==
  \/ \E arg \in ApiArgs : setEligibles(arg)
  \/ \E kind \in ApiCallbacks : subscribeEligibles(kind)
  \/ \E kind \in ApiCallbacks : unsubscribeEligibles(kind)

SpecApi == Init /\ [][NextApi]_vars

\* The Store across page loads: when the page is first loaded localStorage
\* holds no item or one the Store did not write; lists are written with
\* the save working or not, and the page is loaded again.
StorageItems == {Absent} \cup {Present(t) : t \in NonArrayTexts}

BootLists ==
  {<<>>,
   <<Row("t01", 1, 1, Absent)>>,
   <<Row("t02", 2, 4, Present(1)), Row("t01", 1, 1, Absent)>>,
   <<Row("t03", 1, 2, Present(2))>>}

BootArgs ==
  {[isArray |-> TRUE, rows |-> l] : l \in BootLists}
    \cup {[isArray |-> FALSE, rows |-> <<>>]}

InitBoot ==
  /\ \E item \in StorageItems, readable \in BOOLEAN : InitStore(item, readable)
  /\ InitLog
  /\ InitProvisioning
  /\ phase = "unmounted"
  /\ recs = <<>>
  /\ selectedType = ""
  /\ qRecs = Absent
  /\ qSel = Absent
  /\ effectPending = FALSE
  /\ pc = "Idle"
  /\ instance = Absent
  /\ eligibles = <<>>
  /\ loading = FALSE
  /\ error = Absent
  /\ sortByPrice = TRUE
  /\ rawRows = <<>>
  /\ priceReq = Absent
  /\ trigEligibles = <<>>

NextBoot ==
  \/ \E arg \in BootArgs : setEligibles(arg)
  \/ subscribeEligibles("listener")
  \/ unsubscribeEligibles("listener")
  \/ \E readable \in BOOLEAN : StoreStart(readable)

SpecBoot == InitBoot /\ [][NextBoot]_vars

\* The activity log under its callers, with varied events.
NextLog ==
  \/ \E evt \in LogEvents : clock < MaxLogAppends /\ addActivity(evt)
  \/ \E kind \in LogCallbacks : subscribeActivities(kind)
  \/ \E kind \in LogCallbacks : unsubscribeActivities(kind)

SpecLog == Init /\ [][NextLog]_vars

\* The activity log filled past its cap with the same event, one callback
\* listening or not.
NextLogCap ==
  \/ clock < MaxCapAppends /\ addActivity(PlainEvent)
  \/ subscribeActivities("listener")
  \/ unsubscribeActivities("listener")

SpecLogCap == Init /\ [][NextLogCap]_vars

\* The provisioning view with its actions, beside a Store that is written
\* and an activity log the dashboard's feed listens to; nothing in the
\* program calls addActivity.
NextProvision ==
  \/ \E arg \in PipeStoreArgs : SetEligiblesSave(arg, FALSE)
  \/ ViewRender
  \/ ViewEffect
  \/ ViewRerender
  \/ ViewUnmount
  \/ createInstance
  \/ \E res \in CreateResults : SettleCreate(res)
  \/ destroyStack
  \/ \E res \in DestroyResults : SettleDestroy(res)
  \/ subscribeActivities("listener")
  \/ unsubscribeActivities("listener")

SpecProvision == Init /\ [][NextProvision]_vars

\* Callers that read the Store and the activity log between writes and
\* appends, with a callback registered on each or not.
NextReads ==
  \/ \E arg \in ApiArgs : setEligibles(arg)
  \/ subscribeEligibles("listener")
  \/ unsubscribeEligibles("listener")
  \/ clock < MaxLogAppends /\ addActivity(PlainEvent)
  \/ subscribeActivities("listener")
  \/ unsubscribeActivities("listener")
  \/ readEligibles
  \/ readActivities

SpecReads == Init /\ [][NextReads]_vars

\* Callbacks that subscribe and unsubscribe while they are invoked, on the
\* Store and then on the activity log: the session writes to the Store
\* first and turns to the log afterwards.
SubsCallbacks == {"listener", "leaver", "remover", "joiner"}

SubsArg ==
  [isArray |-> TRUE, rows |-> <<Row("t01", 1, 1, Absent)>>]

LogUntouched == _subs = <<>> /\ logDelivered = <<>> /\ clock = 0

NextSubs ==
  \/ LogUntouched /\ SetEligiblesSave(SubsArg, FALSE)
  \/ LogUntouched /\ \E kind \in SubsCallbacks : subscribeEligibles(kind)
  \/ LogUntouched /\ \E kind \in SubsCallbacks : unsubscribeEligibles(kind)
  \/ clock < MaxLogAppends /\ addActivity(PlainEvent)
  \/ \E kind \in SubsCallbacks : subscribeActivities(kind)
  \/ \E kind \in SubsCallbacks : unsubscribeActivities(kind)

SpecSubs == Init /\ [][NextSubs]_vars

\* ================================================================ claims
\* No queued update and no pending effect: every notification is processed.
Quiescent ==
  phase = "mounted" /\ qRecs = Absent /\ qSel = Absent /\ ~effectPending

\* The Selection as the next render will show it.
CurSel == IF qSel # Absent THEN qSel[1] ELSE selectedType

\* The provisioning view's callback is registered with the Store.
ViewSubscribed == \E i \in DOMAIN subscribers : subscribers[i].kind = "view"

FirstTypeOrEmpty(rows) ==
  IF Len(rows) = 0 THEN "" ELSE rows[1].instance_type

\* C1: in the provisioning view, once all notifications have been
\* processed (nothing is queued, the effect has run, and the view holds the
\* list of the last write, which was delivered to it), selectedType is
\* empty or the instance_type of an entry of the Store's current list.
C1_SelectionInCurrentList ==
  (Quiescent /\ recs = getEligibles)
    => (selectedType = "" \/ HasType(getEligibles, selectedType))

\* C2: a run that succeeds with a non-empty result ends by writing the
\* resulting list to the Store, so that getEligibles returns it and the
\* subscribed view has been notified with it.
C2_RunPublishesToStore ==
  [][\A res \in PriceResults(Names(rawRows)) :
       (SettlePrice(res) /\ pc' = "Published")
         => /\ getEligibles' \in {eligibles', SortRows(eligibles')}
            /\ (ViewSubscribed => qRecs' = Present(getEligibles'))]_vars

\* C3: on a notification carrying L, a Selection that is no instance_type
\* of L becomes that of L's first entry, or empty when L is empty.
C3_RepointWhenMissing ==
  [][\A arg \in StoreArgs :
       (setEligibles(arg) /\ ViewSubscribed /\ ~HasType(_eligibles', CurSel))
         => CurSel' = FirstTypeOrEmpty(_eligibles')]_vars

\* C4: on a notification carrying L, a Selection that is the instance_type
\* of some entry of L is left unchanged.
C4_KeepWhenPresent ==
  [][\A arg \in StoreArgs :
       (setEligibles(arg) /\ ViewSubscribed /\ HasType(_eligibles', CurSel))
         => CurSel' = CurSel]_vars

\* C5 as stated: when the eligible-candidates lookup fails, the run ends in
\* the fetch-failure outcome with a message, the Store is not written, no
\* subscriber is notified, no price lookup is issued, and the list the
\* recommendation view holds is what it was before the trigger.
C5_FetchFailureKeepsLists ==
  [][\A opt \in OptimizeResults, el \in EligiblesResults :
       (SettleBoth(opt, el) /\ el.status = "rejected")
         => /\ pc' = "FailedFetch"
            /\ error' # Absent
            /\ priceReq' = Absent
            /\ UNCHANGED <<_eligibles, subscribers, qRecs, qSel>>
            /\ eligibles' = trigEligibles]_vars

\* C5 amended: as above, except that the list the recommendation view
\* holds is empty (the trigger cleared it); neither the trigger nor the
\* failing step writes the Store or notifies a subscriber.
C5_FetchFailureKeepsStore ==
  [][/\ Submit => UNCHANGED <<_eligibles, subscribers, qRecs, qSel>>
     /\ \A opt \in OptimizeResults, el \in EligiblesResults :
          (SettleBoth(opt, el) /\ el.status = "rejected")
            => /\ pc' = "FailedFetch"
               /\ error' # Absent
               /\ ~loading'
               /\ priceReq' = Absent
               /\ UNCHANGED <<_eligibles, subscribers, qRecs, qSel>>
               /\ eligibles' = <<>>]_vars

\* A run failed on the lookup after an earlier run had left a list in the
\* view, beside a non-empty Store with the provisioning view subscribed.
C5_Witness ==
  /\ pc = "FailedFetch"
  /\ trigEligibles # <<>>
  /\ eligibles = <<>>
  /\ _eligibles # <<>>
  /\ ViewSubscribed

\* The messages a fetch failure reports.
FetchFailureMessages ==
  {Present(MsgFetchFailed)} \cup {Present(m) : m \in ServerErrors}

\* C6: when the lookup succeeds with no usable candidate (an empty list or
\* a list field that is no array), the run ends in the no-eligible-
\* candidates outcome, its message is none of the fetch-failure messages,
\* no price lookup is issued and the Store is not written.
C6_NoCandidatesOutcome ==
  [][\A opt \in OptimizeResults, el \in EligiblesResults :
       (/\ SettleBoth(opt, el)
        /\ el.status = "fulfilled"
        /\ (~el.isArray \/ Len(el.first_20) = 0))
         => /\ pc' = "FailedNoCandidates"
            /\ error' = Present(MsgNoInstances)
            /\ error' \notin FetchFailureMessages
            /\ ~loading'
            /\ priceReq' = Absent
            /\ eligibles' = <<>>
            /\ UNCHANGED <<_eligibles, subscribers, qRecs, qSel>>]_vars

\* A run ended with no candidates beside a non-empty Store.
C6_Witness ==
  /\ pc = "FailedNoCandidates"
  /\ error = Present(MsgNoInstances)
  /\ _eligibles # <<>>
  /\ ViewSubscribed

\* C7: when the price lookup fails, the run still publishes the first
\* up-to-10 candidates, each with an absent price, and reports no failure.
C7_PriceFailureStillPublishes ==
  [][\A res \in PriceResults(Names(rawRows)) :
       (SettlePrice(res) /\ res.status = "rejected")
         => /\ eligibles' = Merge(rawRows, <<>>)
            /\ getEligibles' \in {eligibles', SortRows(eligibles')}
            /\ error' = Absent]_vars

\* rows is in ranked order
Ranked(rows) ==
  \A i, j \in DOMAIN rows : i < j => CompareRows(rows[i], rows[j]) <= 0

\* C8: for a lookup result of n >= 1 entries and any price response, the
\* published list has min(n, 10) entries, the instance_types of the first
\* min(n, 10) entries of the result, a present price exactly where the
\* response holds a positive one, and is in ranked order.
C8_PublishedListShape ==
  [][/\ \A opt \in OptimizeResults, el \in EligiblesResults :
          (SettleBoth(opt, el) /\ pc' = "AwaitPrice")
            => rawRows' = Slice(el.first_20, Cap)
     /\ \A res \in PriceResults(Names(rawRows)) :
          (SettlePrice(res) /\ res.status = "fulfilled")
            => LET pub == getEligibles'
                   rows == IF res.hasRows THEN res.rows ELSE <<>>
               IN /\ Len(pub) = Len(rawRows)
                  /\ {pub[i].instance_type : i \in DOMAIN pub}
                       = {rawRows[i].instance_type : i \in DOMAIN rawRows}
                  /\ \A i \in DOMAIN pub :
                       pub[i].price_per_hour # Absent
                         <=> \E k \in DOMAIN rows :
                               /\ rows[k].instance_type = pub[i].instance_type
                               /\ rows[k].price_per_hour # Absent
                               /\ rows[k].price_per_hour[1] > 0
                  /\ Ranked(pub)]_vars

\* C9: with the list ranked, every absent-price entry comes after every
\* present-price entry and the present prices are non-decreasing.
C9_AbsentLastPricesAscending ==
  sortByPrice =>
    \A i, j \in DOMAIN displayRows :
      i < j =>
        LET pi == displayRows[i].price_per_hour
            pj == displayRows[j].price_per_hour
        IN /\ ~(pi = Absent /\ pj # Absent)
           /\ (pi # Absent /\ pj # Absent => pi[1] <= pj[1])

\* A list with mixed prices whose source order has an absent price before
\* a present one, ranked.
C9_Witness ==
  /\ sortByPrice
  /\ \E i, j \in DOMAIN eligibles :
       /\ i < j
       /\ eligibles[i].price_per_hour = Absent
       /\ eligibles[j].price_per_hour # Absent
  /\ \E i, j \in DOMAIN eligibles :
       /\ eligibles[i].price_per_hour # Absent
       /\ eligibles[j].price_per_hour # Absent
       /\ i < j
       /\ eligibles[i].price_per_hour[1] > eligibles[j].price_per_hour[1]

\* C10: in the ranked list, entries of equal price (absent included) are in
\* non-decreasing vCPU order, and in non-decreasing memory_GB order when
\* the vCPU is equal too.
C10_TiesByCpuThenMemory ==
  sortByPrice =>
    \A i, j \in DOMAIN displayRows :
      (i < j /\ displayRows[i].price_per_hour = displayRows[j].price_per_hour)
        => /\ displayRows[i].vCPU <= displayRows[j].vCPU
           /\ (displayRows[i].vCPU = displayRows[j].vCPU
                 => displayRows[i].memory_GB <= displayRows[j].memory_GB)

\* A list with a price tie out of vCPU order and a price-and-vCPU tie out
\* of memory_GB order in the source, ranked.
C10_Witness ==
  /\ sortByPrice
  /\ \E i, j \in DOMAIN eligibles :
       /\ i < j
       /\ eligibles[i].price_per_hour = eligibles[j].price_per_hour
       /\ eligibles[i].vCPU > eligibles[j].vCPU
  /\ \E i, j \in DOMAIN eligibles :
       /\ i < j
       /\ eligibles[i].price_per_hour = eligibles[j].price_per_hour
       /\ eligibles[i].vCPU = eligibles[j].vCPU
       /\ eligibles[i].memory_GB > eligibles[j].memory_GB

\* C11: in the merge, a candidate gets a looked-up price only if the
\* price response has an entry for its instance_type with that strictly
\* positive price; when the response has no entry for it, or only entries
\* whose price is null, zero or negative, its price is absent; a single
\* positive entry is taken over as it is.
C11_PriceOnlyWhenPositive ==
  [][\A res \in PriceResults(Names(rawRows)) :
       (SettlePrice(res) /\ res.status = "fulfilled")
         => LET rows == IF res.hasRows THEN res.rows ELSE <<>>
            IN /\ Len(eligibles') = Len(rawRows)
               /\ \A i \in DOMAIN rawRows :
                    LET t == rawRows[i].instance_type
                        got == eligibles'[i].price_per_hour
                        entries ==
                          {k \in DOMAIN rows : rows[k].instance_type = t}
                    IN /\ eligibles'[i].instance_type = t
                       /\ got # Absent
                            => /\ got[1] > 0
                               /\ \E k \in entries :
                                    rows[k].price_per_hour = got
                       /\ (\A k \in entries :
                             \/ rows[k].price_per_hour = Absent
                             \/ rows[k].price_per_hour[1] <= 0)
                            => got = Absent
                       /\ \A k \in entries :
                            (/\ entries = {k}
                             /\ rows[k].price_per_hour # Absent
                             /\ rows[k].price_per_hour[1] > 0)
                              => got = rows[k].price_per_hour]_vars

\* A full list was merged with a response that priced some of its entries
\* and left, nulled, zeroed or made negative the price of others.
C11_Witness ==
  /\ pc = "Published"
  /\ Len(eligibles) = Cap
  /\ priceReq = Present(Names(eligibles))
  /\ \E i \in DOMAIN eligibles : eligibles[i].price_per_hour # Absent
  /\ \E i \in DOMAIN eligibles : eligibles[i].price_per_hour = Absent

\* C12: the two initial lookups fail independently.  When only the
\* best-pick lookup fails, the candidates are processed as usual and shown
\* with no failure reported; when only the candidates lookup fails, the
\* best pick is set beside the fetch-failure outcome.
C12_LookupsFailIndependently ==
  [][/\ \A opt \in OptimizeResults, el \in EligiblesResults :
          /\ (/\ SettleBoth(opt, el)
              /\ opt.status = "rejected"
              /\ el.status = "fulfilled"
              /\ el.isArray /\ Len(el.first_20) > 0)
               => /\ pc' = "AwaitPrice"
                  /\ error' = Absent
                  /\ instance' = Absent
                  /\ rawRows' = Slice(el.first_20, Cap)
                  /\ priceReq' = Present(Names(rawRows'))
          /\ (/\ SettleBoth(opt, el)
              /\ opt.status = "fulfilled"
              /\ el.status = "rejected")
               => /\ instance' = Present(opt.data)
                  /\ pc' = "FailedFetch"
                  /\ error' \in FetchFailureMessages
     /\ \A res \in PriceResults(Names(rawRows)) :
          (SettlePrice(res) /\ res.status = "fulfilled" /\ instance = Absent)
            => /\ pc' = "Published"
               /\ error' = Absent
               /\ instance' = Absent
               /\ Len(eligibles') = Len(rawRows)
               /\ Len(eligibles') > 0]_vars

\* A run whose best-pick lookup failed has its candidates on show and no
\* failure reported.
C12_Witness ==
  /\ pc = "Published"
  /\ instance = Absent
  /\ eligibles # <<>>
  /\ error = Absent
  /\ ~loading

\* The list a call of setEligibles with this argument writes.
Written(arg) == IF arg.isArray THEN arg.rows ELSE <<>>

\* The kinds of the callbacks registered in a Set or an array of records.
Registered(subs) == {subs[i].kind : i \in DOMAIN subs}

\* The invocations of the callback of this kind in a log of invocations.
Calls(log, kind) == {i \in DOMAIN log : log[i].kind = kind}

\* A callback registered when the call begins writes to the Store when it
\* is invoked.
WritesBack == "writer" \in Registered(subscribers)

\* C13: a setEligibles call whose save throws still returns normally with
\* the snapshot untouched; _eligibles is the list written and every
\* callback registered throughout the call was invoked with it (with the
\* Store's value of the moment, should a callback write during the pass:
\* C14).
C13_SaveFailureStillUpdates ==
  [][\A arg \in ApiArgs :
       SetEligiblesSave(arg, TRUE)
         => /\ ~threw'
            /\ storage' = storage
            /\ valueKind' = "array"
            /\ \A k \in Registered(subscribers) \cap Registered(subscribers') :
                 Calls(delivered', k) # {}
            /\ \A i \in DOMAIN delivered' :
                 delivered'[i].read = delivered'[i].arg
            /\ delivered' # <<>> => delivered'[1].arg = Written(arg)
            /\ IF WritesBack
                 THEN _eligibles' = WriterList
                 ELSE /\ _eligibles' = Written(arg)
                      /\ \A i \in DOMAIN delivered' :
                           delivered'[i].arg = Written(arg)]_vars

\* A non-empty list was written and delivered while the snapshot stayed
\* behind.
C13_Witness ==
  /\ _eligibles # <<>>
  /\ storage # Present(Stringify(_eligibles))
  /\ Len(delivered) >= 2
  /\ \A i \in DOMAIN delivered : delivered[i].arg = _eligibles
  /\ ~threw

\* C14 as stated: when setEligibles returns, every callback registered
\* when the call began and not unsubscribed during the pass has been
\* invoked exactly once, with the list written, which getEligibles
\* returned at that moment; _eligibles is the list written.
C14_EachInvokedOnceWithNewValue ==
  [][\A arg \in ApiArgs :
       setEligibles(arg)
         => /\ _eligibles' = Written(arg)
            /\ \A k \in Registered(subscribers) \cap Registered(subscribers') :
                 /\ Cardinality(Calls(delivered', k)) = 1
                 /\ \A i \in Calls(delivered', k) :
                      /\ delivered'[i].arg = Written(arg)
                      /\ delivered'[i].read = Written(arg)]_vars

\* C14 amended: every such callback has been invoked at least once, every
\* invocation with the value getEligibles returned at that moment, the
\* first of the pass with the list written; _eligibles is a list that was
\* written, whole.  When no callback writes to the Store during the pass,
\* each such callback is invoked exactly once, with the list written, and
\* _eligibles is that list.
C14_EachInvokedWithCurrentValue ==
  [][\A arg \in ApiArgs :
       setEligibles(arg)
         => /\ _eligibles' \in {Written(arg), WriterList}
            /\ \A k \in Registered(subscribers) \cap Registered(subscribers') :
                 Calls(delivered', k) # {}
            /\ \A i \in DOMAIN delivered' :
                 /\ delivered'[i].read = delivered'[i].arg
                 /\ delivered'[i].arg \in {Written(arg), WriterList}
            /\ delivered' # <<>> => delivered'[1].arg = Written(arg)
            /\ ~WritesBack
                 => /\ _eligibles' = Written(arg)
                    /\ \A k \in Registered(subscribers)
                                  \cap Registered(subscribers') :
                         Cardinality(Calls(delivered', k)) = 1
                    /\ \A i \in DOMAIN delivered' :
                         delivered'[i].arg = Written(arg)]_vars

\* A pass in which a callback left and the one after it was still invoked,
\* once like every other, with the non-empty list written.
C14_Witness ==
  /\ _eligibles # <<>>
  /\ \E i \in DOMAIN delivered :
       /\ delivered[i].kind = "leaver"
       /\ i < Len(delivered)
  /\ \A i, j \in DOMAIN delivered :
       delivered[i].kind = delivered[j].kind => i = j
  /\ \A i \in DOMAIN delivered : delivered[i].arg = _eligibles
  /\ Registered(subscribers) # {}

\* C15: when a registered callback throws, setEligibles still returns
\* normally and every other callback registered throughout the call has
\* been invoked, with the list written when no callback writes to the
\* Store during the pass.
C15_ThrowerDoesNotBlockStore ==
  [][\A arg \in ApiArgs :
       (setEligibles(arg) /\ "thrower" \in Registered(subscribers))
         => /\ ~threw'
            /\ Calls(delivered', "thrower") # {}
            /\ \A k \in (Registered(subscribers) \cap Registered(subscribers'))
                          \ {"thrower"} :
                 /\ Calls(delivered', k) # {}
                 /\ \E i \in Calls(delivered', k) :
                      delivered'[i].arg = _eligibles'
                 /\ ~WritesBack
                      => \A i \in Calls(delivered', k) :
                           delivered'[i].arg = Written(arg)]_vars

\* A callback threw and one registered after it was invoked all the same.
C15_Witness ==
  /\ ~threw
  /\ _eligibles # <<>>
  /\ \E i, j \in DOMAIN delivered :
       /\ i < j
       /\ delivered[i].kind = "thrower"
       /\ delivered[j].kind # "thrower"
       /\ delivered[j].arg = _eligibles

\* C16: when a callback registered with the activity log throws during the
\* pass of addActivity, every other registered callback is still invoked
\* in that pass, with the log's current sequence.
C16_ThrowerDoesNotBlockLog ==
  [][\A evt \in LogEvents :
       (addActivity(evt) /\ \E i \in DOMAIN _subs : _subs[i] = "thrower")
         => \A i \in DOMAIN _subs :
              _subs[i] # "thrower"
                => \E j \in DOMAIN logDelivered' :
                     /\ logDelivered'[j].kind = _subs[i]
                     /\ logDelivered'[j].arg = getActivities']_vars

C18_StartsEmptyUnlessArray ==
  (/\ boot # Absent
   /\ \/ ~boot[1].readable
      \/ boot[1].item = Absent
      \/ boot[1].item[1].kind # "array")
    => (valueKind = "array" /\ getEligibles = <<>>)

\* The Store holds what a page load read from the snapshot a setEligibles
\* call had left: the list of that snapshot.
StartedFromSnapshot ==
  (boot # Absent /\ boot[1].readable /\ boot[1].item # Absent)
    => \A l \in BootLists :
         boot[1].item = Present(Stringify(l))
           => (valueKind = "array" /\ getEligibles = l)

\* C19: right after a setEligibles call whose save succeeded, the snapshot
\* in localStorage parses to a list equal to _eligibles, the list written;
\* a page load that reads a snapshot gives the Store the list it holds.
C19_SnapshotRoundTrip ==
  [][/\ \A arg \in BootArgs :
          SetEligiblesSave(arg, FALSE)
            => /\ storage' # Absent
               /\ LoadEligibles(storage', TRUE)
                    = [kind |-> "array", rows |-> getEligibles']
               /\ getEligibles' = Written(arg)
     /\ StartedFromSnapshot'
     /\ (StoreStart(TRUE) /\ storage = Present(Stringify(getEligibles))
                          /\ valueKind = "array")
          => (getEligibles' = getEligibles /\ valueKind' = "array")]_vars

\* A list with a price and an absent price was read back from the snapshot
\* by a page load.
C19_Witness ==
  /\ boot # Absent
  /\ boot[1].readable
  /\ boot[1].item = storage
  /\ storage = Present(Stringify(getEligibles))
  /\ Len(getEligibles) = 2
  /\ \E i \in DOMAIN getEligibles : getEligibles[i].price_per_hour # Absent
  /\ \E i \in DOMAIN getEligibles : getEligibles[i].price_per_hour = Absent

\* C20: the activity log never holds more than 100 entries, neither in
\* _rows nor in the sequence handed to a callback during a pass.
C20_LogAtMostHundred ==
  /\ Len(getActivities) <= 100
  /\ \A i \in DOMAIN logDelivered : Len(logDelivered[i].arg) <= 100

\* More than 100 events were appended; the log is full and the callback
\* was handed the full log.
C20_Witness ==
  /\ clock > 100
  /\ Len(getActivities) = 100
  /\ logDelivered # <<>>
  /\ Len(logDelivered[1].arg) = 100

\* The row addActivity makes of PlainEvent in its n-th call.
PlainRow(n) ==
  [id |-> Present([by |-> "cryptoRandom", n |-> n]),
   ts |-> Present(n + 9),
   kind |-> PlainEvent.kind,
   region |-> PlainEvent.region]

\* C21: after n addActivity calls the log holds the rows of the last
\* min(n, 100) calls, unchanged, the latest first; so a call on a full log
\* drops the row of the oldest call and nothing else.
C21_LatestHundredNewestFirst ==
  /\ Len(getActivities) = (IF clock < 100 THEN clock ELSE 100)
  /\ \A i \in DOMAIN getActivities :
       getActivities[i] = PlainRow(clock - i + 1)

\* 101 events were appended: 100 rows, the second call's the oldest, the
\* first call's gone.
C21_Witness ==
  /\ clock = 101
  /\ Len(getActivities) = 100
  /\ getActivities[1] = PlainRow(101)
  /\ getActivities[100] = PlainRow(2)
  /\ \A i \in DOMAIN getActivities : getActivities[i] # PlainRow(1)

\* C22: every row of the log has a defined, non-empty id and a defined ts.
C22_RowsHaveIdAndTs ==
  \A i \in DOMAIN getActivities :
    /\ getActivities[i].id # Absent
    /\ getActivities[i].id[1] # EmptyId
    /\ getActivities[i].ts # Absent

\* C23: a create or destroy that succeeds in the provisioning view appends
\* one event to the activity log and the subscribed feed is handed the log
\* with it.
C23_ProvisioningIsLogged ==
  [][/\ \A res \in CreateResults :
          (SettleCreate(res) /\ res.status = "fulfilled")
            => /\ clock' = clock + 1
               /\ getActivities' # <<>>
               /\ _subs # <<>> => logDelivered' # <<>>
     /\ \A res \in DestroyResults :
          (SettleDestroy(res) /\ res.status = "fulfilled")
            => /\ clock' = clock + 1
               /\ getActivities' # <<>>
               /\ _subs # <<>> => logDelivered' # <<>>]_vars

\* C24: getEligibles and getActivities change no state: the Store, the log
\* and their callbacks are as before and no callback is invoked, and all the
\* reads since the last write, or the last append, returned the same value,
\* the one held now.
C24_ReadsChangeNothing ==
  [][/\ readEligibles
          => /\ UNCHANGED <<storeVars, logVars>>
             /\ \A i \in DOMAIN lastEligibles' :
                  lastEligibles'[i]
                    = [kind |-> valueKind', rows |-> _eligibles']
     /\ readActivities
          => /\ UNCHANGED <<storeVars, logVars>>
             /\ \A i \in DOMAIN lastActivities' : lastActivities'[i] = _rows'
     /\ \A i \in DOMAIN lastEligibles' :
          lastEligibles'[i] = lastEligibles'[1]
     /\ \A i \in DOMAIN lastActivities' :
          lastActivities'[i] = lastActivities'[1]]_vars

C24_Witness ==
  /\ Len(lastEligibles) = MaxReads
  /\ Len(lastActivities) = MaxReads
  /\ lastEligibles[1].rows # <<>>
  /\ lastActivities[1] # <<>>
  /\ subscribers # <<>>
  /\ _subs # <<>>

\* C25: from mount to unmount, whenever the view's effect has run and no
\* update of the view is pending, the view's recs is the Store's current
\* value, also after a write between the view's first render and its
\* subscription and after writes around a re-subscription.
C25_RecsIsStoreValue == Quiescent => recs = getEligibles

\* C26: a run issues at most one price request: none before its two
\* lookups have settled, one when the candidates lookup was fulfilled with
\* a list that is not empty, carrying the instance_type of its first 10
\* entries at most, in the list's order, and no other until the next
\* trigger.
C26_OnePriceRequest ==
  [][/\ Submit => priceReq' = Absent
     /\ \A opt \in OptimizeResults, el \in EligiblesResults :
          SettleBoth(opt, el) =>
            /\ priceReq = Absent
            /\ IF el.status = "fulfilled" /\ el.isArray
                    /\ Len(el.first_20) > 0
                 THEN /\ priceReq' # Absent
                      /\ Len(priceReq'[1]) =
                           (IF Len(el.first_20) < 10 THEN Len(el.first_20)
                            ELSE 10)
                      /\ \A i \in DOMAIN priceReq'[1] :
                           priceReq'[1][i] = el.first_20[i].instance_type
                 ELSE priceReq' = Absent
     /\ ~Submit /\ (\A opt \in OptimizeResults, el \in EligiblesResults :
                      ~SettleBoth(opt, el))
          => priceReq' = priceReq]_vars

C26_Witness ==
  /\ pc = "AwaitPrice"
  /\ instance = Absent
  /\ priceReq # Absent
  /\ Len(priceReq[1]) = 10
  /\ priceReq[1][1] # priceReq[1][10]

\* C27: a run whose requests have all settled is no longer loading and has
\* ended in one of Published, FailedNoCandidates and FailedFetch; a trigger
\* then starts a run with error, best pick and list cleared.
C27_RunEndsInOneOfThree ==
  [][/\ pc' \notin {"AwaitBoth", "AwaitPrice"}
          => /\ ~loading'
             /\ pc' \in {"Idle", "Published", "FailedNoCandidates",
                         "FailedFetch"}
     /\ Submit
          => /\ pc' = "AwaitBoth"
             /\ loading'
             /\ error' = Absent
             /\ instance' = Absent
             /\ eligibles' = <<>>]_vars

ApplyOp(set, kind) ==
  CASE kind = "leaver" -> set \ {"leaver"}
    [] kind = "remover" -> set \ {"listener"}
    [] kind = "joiner" -> set \cup {"late"}
    [] OTHER -> set

\* The operations of the callbacks invoked, in the order of invocation.
RECURSIVE ApplyOps(_, _, _)
ApplyOps(set, log, i) ==
  IF i > Len(log) THEN set
  ELSE ApplyOps(ApplyOp(set, log[i].kind), log, i + 1)

\* The callbacks registered in the log's array.
LogRegistered(subs) == {subs[i] : i \in DOMAIN subs}

NoDuplicates(seq) ==
  \A i, j \in DOMAIN seq : i # j => seq[i] # seq[j]

LastCall(log, kind) ==
  CHOOSE i \in Calls(log, kind) : \A j \in Calls(log, kind) : j <= i

\* C30: when a callback has called setEligibles(B) during the pass of
\* setEligibles(A), then at the return of the outer call _eligibles is B
\* and the last invocation of every registered callback was with B.
C30_InnerWriteWins ==
  [][\A arg \in ApiArgs :
       (setEligibles(arg) /\ Calls(delivered', "writer") # {})
         => /\ _eligibles' = WriterList
            /\ \A k \in Registered(subscribers') :
                 /\ Calls(delivered', k) # {}
                 /\ delivered'[LastCall(delivered', k)].arg = WriterList]_vars

\* A listener ahead of the writer was handed the non-empty list of the
\* outer call and then the writer's list.
C30_Witness ==
  /\ _eligibles = WriterList
  /\ "listener" \in Registered(subscribers)
  /\ Calls(delivered, "writer") # {}
  /\ \E i \in Calls(delivered, "listener") :
       /\ delivered[i].arg # <<>>
       /\ delivered[i].arg # WriterList
       /\ i < LastCall(delivered, "listener")

====
